---------------------------- MODULE Spec2Model ----------------------------
(***************************************************************************)
(* Model of the quadrature rules of Python_and_Numerical_Integration.ipynb *)
(* (Integral_Riemann, Integral_Trapezoid1, Integral_Trapezoid2,            *)
(* Integral_SimpsonRule) and of the notebook's top-level cells.            *)
(*                                                                         *)
(* Numbers are exact rationals <<num, den>> (den > 0, lowest terms), so    *)
(* every equality below is an equality in exact arithmetic; the rounding   *)
(* of IEEE doubles is not modelled.  A Python value n is an int iff its    *)
(* denominator is 1 (floats with an integral value are not modelled).      *)
(***************************************************************************)
EXTENDS Integers, Sequences, FiniteSets, TLC

VARIABLES
    argF,    \* the callable under test: [coef, bad]
    argA,    \* first bound of the test case
    argB,    \* second bound of the test case
    argN,    \* subdivision count of the test case
    cur,     \* the latest finished rule call: [rule, dir, out], or NoCall
    prev,    \* the call finished before it
    gl,      \* the notebook's top-level variables a, b, n, h, f, xvals
    frames   \* the activation records of the calls in progress

vars == <<argF, argA, argB, argN, cur, prev, gl, frames>>

---------------------------------------------------------------------------
\* Bounds of the model.

\* the bounds a, b range over -1 .. MaxAB
MaxAB == 1

\* integer subdivision counts range over -1 .. MaxN
MaxN == 5

---------------------------------------------------------------------------
\* Exact rational arithmetic (the arithmetic of Python floats, unrounded).

Abs(i) == IF i < 0 THEN -i ELSE i

RECURSIVE GCD(_, _)
GCD(x, y) == IF y = 0 THEN x ELSE GCD(y, x % y)

\* num/den with den > 0, in lowest terms
Norm(num, den) ==
    LET g == GCD(Abs(num), den)
    IN  <<num \div g, den \div g>>

RInt(i) == <<i, 1>>
Zero == RInt(0)

RAdd(x, y) == Norm(x[1] * y[2] + y[1] * x[2], x[2] * y[2])
RNeg(x) == <<-x[1], x[2]>>
RSub(x, y) == RAdd(x, RNeg(y))
RMul(x, y) == Norm(x[1] * y[1], x[2] * y[2])

\* x / y for y # 0
RDiv(x, y) ==
    IF y[1] > 0 THEN Norm(x[1] * y[2], x[2] * y[1])
    ELSE Norm(-(x[1] * y[2]), -(x[2] * y[1]))

IsInt(x) == x[2] = 1
RLess(x, y) == x[1] * y[2] < y[1] * x[2]

\* the float literals of the return statements
Half == <<1, 2>>
OneThird == <<1, 3>>
TwoThirds == <<2, 3>>
FourThirds == <<4, 3>>

---------------------------------------------------------------------------
\* Python values and built-ins used by the rules.

\* A callable f: a polynomial coef[1] + coef[2]*x + ... + coef[5]*x^4 that
\* throws when called at a point of bad.
PolyVal(f, x) ==
    LET c == f.coef
    IN  RAdd(RInt(c[1]), RMul(x,
        RAdd(RInt(c[2]), RMul(x,
        RAdd(RInt(c[3]), RMul(x,
        RAdd(RInt(c[4]), RMul(x, RInt(c[5])))))))))

Throws(f, x) == x \in f.bad

\* range(start, stop, step) for step > 0, as the sequence it iterates
PyRange(start, stop, step) ==
    LET cnt == IF stop <= start THEN 0 ELSE ((stop - start - 1) \div step) + 1
    IN  [k \in 1..cnt |-> start + (k - 1) * step]

\* sum(yvals): left fold from 0
RECURSIVE PySum(_)
PySum(yvals) ==
    IF Len(yvals) = 0 THEN Zero
    ELSE RAdd(PySum(SubSeq(yvals, 1, Len(yvals) - 1)), yvals[Len(yvals)])

\* [a + i*h for i in <indices>]
Comprehension(a, h, indices) ==
    [k \in 1..Len(indices) |-> RAdd(a, RMul(RInt(indices[k]), h))]

\* The calls np.vectorize(f) makes on a non-empty array xs when otypes is not
\* set: f on the first element (to find the output type, uncached), then f
\* on every element in order.
VectorizeCalls(xs) == <<xs[1]>> \o xs

\* np.vectorize that masks a throwing point with 0 and goes on
VectorizeSkipping(f, xs) ==
    IF Len(xs) = 0 THEN [err |-> "ValueError", ys |-> <<>>, evals |-> <<>>]
    ELSE [err |-> "none",
          ys |-> [k \in 1..Len(xs) |->
                    IF Throws(f, xs[k]) THEN Zero ELSE PolyVal(f, xs[k])],
          evals |-> VectorizeCalls(xs)]

\* np.vectorize with otypes set: a size 0 input gives a size 0 output
VectorizeOtypes(f, xs) ==
    IF Len(xs) = 0 THEN [err |-> "none", ys |-> <<>>, evals |-> <<>>]
    ELSE
      LET failing == {k \in 1..Len(xs) : Throws(f, xs[k])}
      IN  IF failing # {}
          THEN LET first == CHOOSE k \in failing : \A j \in failing : k <= j
               IN  [err |-> "EvaluationFailure", ys |-> <<>>,
                    evals |-> SubSeq(xs, 1, first)]
          ELSE [err |-> "none",
                ys |-> [k \in 1..Len(xs) |-> PolyVal(f, xs[k])],
                evals |-> xs]

\* np.vectorize(f)(xs): [err, ys, evals], evals the points f was called at.
\* A size 0 input raises ValueError; an exception of f propagates.
Vectorize(f, xs) ==
    IF Len(xs) = 0 THEN [err |-> "ValueError", ys |-> <<>>, evals |-> <<>>]
    ELSE
      LET calls == VectorizeCalls(xs)
          failing == {k \in 1..Len(calls) : Throws(f, calls[k])}
      IN  IF failing # {}
          THEN LET first == CHOOSE k \in failing : \A j \in failing : k <= j
               IN  [err |-> "EvaluationFailure", ys |-> <<>>,
                    evals |-> SubSeq(calls, 1, first)]
          ELSE [err |-> "none",
                ys |-> [k \in 1..Len(xs) |-> PolyVal(f, xs[k])],
                evals |-> calls]

\* The outcome of a call: a returned value or a raised exception, with the
\* points at which f was called, in call order.
Value(v, evals) == [kind |-> "value", val |-> v, err |-> "none", evals |-> evals]
Raise(e, evals) == [kind |-> "error", val |-> Zero, err |-> e, evals |-> evals]

\* a step size forced positive: h = abs(float(b)-float(a))/enne
StepSizeAbs(a, b, n) ==
    LET h == RDiv(RSub(b, a), n)
    IN  IF RLess(h, Zero) THEN RNeg(h) ELSE h

\* h = (float(b)-float(a))/enne, for enne # 0
StepSize(a, b, n) == RDiv(RSub(b, a), n)

---------------------------------------------------------------------------
\* The four rules, line by line.

\* the Riemann sum over range(0, n): left endpoints
Integral_Riemann_Left(f, a, b, n) ==
    IF n = Zero THEN Raise("ZeroDivisionError", <<>>)
    ELSE IF ~IsInt(n) THEN Raise("TypeError", <<>>)
    ELSE
      LET h == StepSize(a, b, n)
          xvals == Comprehension(a, h, PyRange(0, n[1], 1))
          yvals == Vectorize(f, xvals)
      IN  IF yvals.err # "none" THEN Raise(yvals.err, yvals.evals)
          ELSE Value(RMul(PySum(yvals.ys), h), yvals.evals)

Integral_Riemann(f, a, b, n) ==
    IF n = Zero THEN Raise("ZeroDivisionError", <<>>)
    ELSE IF ~IsInt(n) THEN Raise("TypeError", <<>>)
    ELSE
      LET h == StepSize(a, b, n)
          xvals == Comprehension(a, h, PyRange(1, n[1] + 1, 1))
          yvals == Vectorize(f, xvals)
      IN  IF yvals.err # "none" THEN Raise(yvals.err, yvals.evals)
          ELSE Value(RMul(PySum(yvals.ys), h), yvals.evals)

Integral_Trapezoid1(f, a, b, n) ==
    IF n = Zero THEN Raise("ZeroDivisionError", <<>>)
    ELSE IF ~IsInt(n) THEN Raise("TypeError", <<>>)
    ELSE
      LET h == StepSize(a, b, n)
          xvals == Comprehension(a, h, PyRange(1, n[1], 1))
          yvals == Vectorize(f, xvals)
          fa == Vectorize(f, <<a>>)
          fb == Vectorize(f, <<b>>)
      IN  IF yvals.err # "none" THEN Raise(yvals.err, yvals.evals)
          ELSE IF fa.err # "none"
            THEN Raise(fa.err, yvals.evals \o fa.evals)
          ELSE IF fb.err # "none"
            THEN Raise(fb.err, yvals.evals \o fa.evals \o fb.evals)
          ELSE Value(RMul(RAdd(PySum(yvals.ys),
                               RMul(Half, RAdd(fa.ys[1], fb.ys[1]))), h),
                     yvals.evals \o fa.evals \o fb.evals)

Integral_Trapezoid2(f, a, b, n) ==
    IF n = Zero THEN Raise("ZeroDivisionError", <<>>)
    ELSE IF ~IsInt(n) THEN Raise("TypeError", <<>>)
    ELSE
      LET h == StepSize(a, b, n)
          xvals1 == Comprehension(a, h, PyRange(0, n[1], 1))
          xvals2 == Comprehension(a, h, PyRange(1, n[1] + 1, 1))
          yvals1 == Vectorize(f, xvals1)
          yvals2 == Vectorize(f, xvals2)
      IN  IF yvals1.err # "none" THEN Raise(yvals1.err, yvals1.evals)
          ELSE IF yvals2.err # "none"
            THEN Raise(yvals2.err, yvals1.evals \o yvals2.evals)
          ELSE Value(RMul(RMul(RAdd(PySum(yvals1.ys), PySum(yvals2.ys)),
                               Half), h),
                     yvals1.evals \o yvals2.evals)

Integral_SimpsonRule(f, a, b, n) ==
    IF n = Zero THEN Raise("ZeroDivisionError", <<>>)
    ELSE IF ~IsInt(n) THEN Raise("TypeError", <<>>)
    ELSE
      LET h == StepSize(a, b, n)
          xvalsOdd == Comprehension(a, h, PyRange(1, n[1], 2))
          xvalsEven == Comprehension(a, h, PyRange(2, n[1] - 1, 2))
          yvalsOdd == Vectorize(f, xvalsOdd)
          yvalsEven == Vectorize(f, xvalsEven)
          fa == Vectorize(f, <<a>>)
          fb == Vectorize(f, <<b>>)
          ev2 == yvalsOdd.evals \o yvalsEven.evals
      IN  IF yvalsOdd.err # "none" THEN Raise(yvalsOdd.err, yvalsOdd.evals)
          ELSE IF yvalsEven.err # "none" THEN Raise(yvalsEven.err, ev2)
          ELSE IF fa.err # "none" THEN Raise(fa.err, ev2 \o fa.evals)
          ELSE IF fb.err # "none"
            THEN Raise(fb.err, ev2 \o fa.evals \o fb.evals)
          ELSE Value(RMul(RAdd(RAdd(RAdd(
                         RMul(FourThirds, PySum(yvalsOdd.ys)),
                         RMul(TwoThirds, PySum(yvalsEven.ys))),
                         RMul(OneThird, fa.ys[1])),
                         RMul(OneThird, fb.ys[1])), h),
                     ev2 \o fa.evals \o fb.evals)

Rules == {"Riemann", "Trapezoid1", "Trapezoid2", "Simpson"}

\* the notebook's call rule(f, a, b, n)
CallRule(rule, f, a, b, n) ==
    CASE rule = "Riemann" -> Integral_Riemann(f, a, b, n)
      [] rule = "Trapezoid1" -> Integral_Trapezoid1(f, a, b, n)
      [] rule = "Trapezoid2" -> Integral_Trapezoid2(f, a, b, n)
      [] rule = "Simpson" -> Integral_SimpsonRule(f, a, b, n)

---------------------------------------------------------------------------
\* The inputs of the test cases.

Rats(lo, hi) == {RInt(i) : i \in lo..hi}

\* bounds a, b
ABValues == Rats(-1, MaxAB)

\* subdivision counts: ints -1 .. MaxN, and the non-integers -1/2 and 5/2
NValues == Rats(-1, MaxN) \cup {<<-1, 2>>, <<5, 2>>}

\* 3, 1 + 2x, x^2 - x, x^3 - 2x^2 + 1, x^4
Polynomials ==
    { <<3, 0, 0, 0, 0>>, <<1, 2, 0, 0, 0>>, <<0, -1, 1, 0, 0>>,
      <<1, 0, -2, 1, 0>>, <<0, 0, 0, 0, 1>> }

\* the sets of points at which a callable may throw
BadSets == { {}, {Zero}, {Half} }

Functions == [coef : Polynomials, bad : BadSets]

Degree(f) ==
    LET nz == {k \in 1..5 : f.coef[k] # 0}
    IN  IF nz = {} THEN 0 ELSE (CHOOSE k \in nz : \A j \in nz : j <= k) - 1

---------------------------------------------------------------------------
\* State machine of a session that calls the rules on one test case, with
\* the bounds in order ("fwd": rule(f, a, b, n)) or reversed ("rev":
\* rule(f, b, a, n)).

Dirs == {"fwd", "rev"}
NoOut == [kind |-> "none", val |-> Zero, err |-> "none", evals |-> <<>>]
NoCall == [rule |-> "none", dir |-> "none", out |-> NoOut]

Lower(dir) == IF dir = "fwd" THEN argA ELSE argB
Upper(dir) == IF dir = "fwd" THEN argB ELSE argA

Frames == {1, 2}
Idle == [pc |-> "idle"]
GlobalsUnset == [set |-> "none"]

Init ==
    /\ argF \in Functions
    /\ argA \in ABValues
    /\ argB \in ABValues
    /\ argN \in NValues
    /\ cur = NoCall
    /\ prev = NoCall
    /\ gl = GlobalsUnset
    /\ frames = [k \in Frames |-> Idle]

\* the record kept of a finished call
Finished(rule, dir, out) == [rule |-> rule, dir |-> dir, out |-> out]

CallRiemann(dir) ==
    /\ cur' = Finished("Riemann", dir,
                  Integral_Riemann(argF, Lower(dir), Upper(dir), argN))
    /\ prev' = cur
    /\ UNCHANGED <<argF, argA, argB, argN, gl, frames>>

CallTrapezoid1(dir) ==
    /\ cur' = Finished("Trapezoid1", dir,
                  Integral_Trapezoid1(argF, Lower(dir), Upper(dir), argN))
    /\ prev' = cur
    /\ UNCHANGED <<argF, argA, argB, argN, gl, frames>>

CallTrapezoid2(dir) ==
    /\ cur' = Finished("Trapezoid2", dir,
                  Integral_Trapezoid2(argF, Lower(dir), Upper(dir), argN))
    /\ prev' = cur
    /\ UNCHANGED <<argF, argA, argB, argN, gl, frames>>

CallSimpsonRule(dir) ==
    /\ cur' = Finished("Simpson", dir,
                  Integral_SimpsonRule(argF, Lower(dir), Upper(dir), argN))
    /\ prev' = cur
    /\ UNCHANGED <<argF, argA, argB, argN, gl, frames>>

Next ==
    \E dir \in Dirs :
        \/ CallRiemann(dir)
        \/ CallTrapezoid1(dir)
        \/ CallTrapezoid2(dir)
        \/ CallSimpsonRule(dir)

Spec == Init /\ [][Next]_vars

---------------------------------------------------------------------------
\* State machine of the notebook as a whole: the top-level cells that assign
\* the global names a, b (cell "b = 1.5; a = 1.0") and n, enne, h, xvals, f,
\* yvals (cell "n = 100 ..."), and two rule calls in progress, each an
\* activation record executed one statement at a time.  Frame 1 is called
\* as rule(f, a, b, n), frame 2 as rule(f, b, a, n).

\* the literals of the top-level cells
GlobalA == RInt(1)
GlobalB == <<3, 2>>
GlobalN == RInt(100)

FrameDir(k) == IF k = 1 THEN "fwd" ELSE "rev"

\* the function called in the two-frame machine: x^3 - 2x^2 + 1, throwing
\* at 1/2
FrameFunctions == { [coef |-> <<1, 0, -2, 1, 0>>, bad |-> {Half}] }

\* the counts of the two-frame machine: ints 0 .. MaxN, and 5/2
FrameNValues == Rats(0, MaxN) \cup {<<5, 2>>}

InitFrames ==
    /\ argF \in FrameFunctions
    /\ argA \in ABValues
    /\ argB \in ABValues
    /\ ~RLess(argB, argA)
    /\ argN \in FrameNValues
    /\ cur = NoCall
    /\ prev = NoCall
    /\ gl = GlobalsUnset
    /\ frames = [k \in Frames |-> Idle]

Active(fr) == fr.pc \notin {"idle", "done"}

\* a top-level assignment ran: remember it in the calls in progress
Reassigned ==
    [k \in Frames |->
        IF Active(frames[k]) THEN [frames[k] EXCEPT !.reassigned = TRUE]
        ELSE frames[k]]

\* b = 1.5; a = 1.0
Cell20 ==
    /\ gl' = IF gl.set = "all" THEN [gl EXCEPT !.a = GlobalA, !.b = GlobalB]
             ELSE [set |-> "ab", a |-> GlobalA, b |-> GlobalB]
    /\ frames' = Reassigned
    /\ UNCHANGED <<argF, argA, argB, argN, cur, prev>>

\* n = 100; enne = float(n); h = ...; xvals = [...]; f = np.vectorize(dF_dx)
Cell26 ==
    /\ gl.set # "none"
    /\ LET h == StepSize(gl.a, gl.b, GlobalN)
       IN  gl' = [set |-> "all", a |-> gl.a, b |-> gl.b, n |-> GlobalN,
                  h |-> h,
                  xvals |-> Comprehension(gl.a, h,
                                          PyRange(1, GlobalN[1] + 1, 1)),
                  f |-> "np.vectorize(dF_dx)"]
    /\ frames' = Reassigned
    /\ UNCHANGED <<argF, argA, argB, argN, cur, prev>>

\* the call rule(f, a, b, n): bind the parameters
Invoke(k, rule) ==
    /\ frames[k].pc = "idle"
    /\ frames' = [frames EXCEPT ![k] =
          [pc |-> "h", rule |-> rule, f |-> argF,
           a |-> Lower(FrameDir(k)), b |-> Upper(FrameDir(k)), n |-> argN,
           h |-> Zero, xlists |-> <<>>, ylists |-> <<>>, evals |-> <<>>,
           out |-> NoOut, reassigned |-> FALSE]]
    /\ UNCHANGED <<argF, argA, argB, argN, cur, prev, gl>>

\* the frame raises / returns
FrameRaise(fr, e, evals) ==
    [fr EXCEPT !.pc = "done", !.out = Raise(e, evals), !.evals = evals]
FrameReturn(fr, v, evals) ==
    [fr EXCEPT !.pc = "done", !.out = Value(v, evals), !.evals = evals]

\* the names a statement of the function reads: the parameters and the
\* locals bound by the statements before it
LocalA(k) == frames[k].a
LocalB(k) == frames[k].b
LocalN(k) == frames[k].n
LocalF(k) == frames[k].f
\* h looked up in the notebook's globals once the cell has bound it there
GlobalH(k) == IF gl.set = "all" THEN gl.h ELSE frames[k].h
LocalH(k) == frames[k].h

\* enne = float(n); h = (float(b)-float(a))/enne
StepH(k) ==
    /\ frames[k].pc = "h"
    /\ frames' = [frames EXCEPT ![k] =
          IF LocalN(k) = Zero THEN FrameRaise(@, "ZeroDivisionError", <<>>)
          ELSE [@ EXCEPT !.pc = "xvals",
                         !.h = StepSize(LocalA(k), LocalB(k), LocalN(k))]]
    /\ UNCHANGED <<argF, argA, argB, argN, cur, prev, gl>>

\* the index ranges of the rule's list comprehensions, in statement order
IndexRanges(rule, m) ==
    CASE rule = "Riemann" -> << PyRange(1, m + 1, 1) >>
      [] rule = "Trapezoid1" -> << PyRange(1, m, 1) >>
      [] rule = "Trapezoid2" -> << PyRange(0, m, 1), PyRange(1, m + 1, 1) >>
      [] rule = "Simpson" -> << PyRange(1, m, 2), PyRange(2, m - 1, 2) >>

\* xvals = [a + i*h for i in range(...)]  (one or two lists)
StepXvals(k) ==
    /\ frames[k].pc = "xvals"
    /\ frames' = [frames EXCEPT ![k] =
          IF ~IsInt(LocalN(k)) THEN FrameRaise(@, "TypeError", <<>>)
          ELSE LET ranges == IndexRanges(@.rule, LocalN(k)[1])
               IN  [@ EXCEPT !.pc = "yvals",
                      !.xlists = [j \in 1..Len(ranges) |->
                          Comprehension(LocalA(k), LocalH(k), ranges[j])]]]
    /\ UNCHANGED <<argF, argA, argB, argN, cur, prev, gl>>

\* f = np.vectorize(f); yvals = f(xvals)  (one or two lists, in order)
StepYvals(k) ==
    /\ frames[k].pc = "yvals"
    /\ LET fr == frames[k]
           y1 == Vectorize(LocalF(k), fr.xlists[1])
           y2 == Vectorize(LocalF(k), fr.xlists[2])
       IN  frames' = [frames EXCEPT ![k] =
             IF y1.err # "none" THEN FrameRaise(fr, y1.err, y1.evals)
             ELSE IF Len(fr.xlists) = 1
               THEN [fr EXCEPT !.pc = "return", !.ylists = <<y1.ys>>,
                               !.evals = y1.evals]
             ELSE IF y2.err # "none"
               THEN FrameRaise(fr, y2.err, y1.evals \o y2.evals)
             ELSE [fr EXCEPT !.pc = "return", !.ylists = <<y1.ys, y2.ys>>,
                             !.evals = y1.evals \o y2.evals]]
    /\ UNCHANGED <<argF, argA, argB, argN, cur, prev, gl>>

\* the value of the return expression, given f(a) and f(b) where it uses
\* them
ReturnValue(rule, ylists, fa, fb, h) ==
    CASE rule = "Riemann" -> RMul(PySum(ylists[1]), h)
      [] rule = "Trapezoid1" ->
           RMul(RAdd(PySum(ylists[1]), RMul(Half, RAdd(fa, fb))), h)
      [] rule = "Trapezoid2" ->
           RMul(RMul(RAdd(PySum(ylists[1]), PySum(ylists[2])), Half), h)
      [] rule = "Simpson" ->
           RMul(RAdd(RAdd(RAdd(RMul(FourThirds, PySum(ylists[1])),
                               RMul(TwoThirds, PySum(ylists[2]))),
                          RMul(OneThird, fa)),
                     RMul(OneThird, fb)), h)

\* return ...
StepReturn(k) ==
    /\ frames[k].pc = "return"
    /\ LET fr == frames[k]
           fa == Vectorize(LocalF(k), <<LocalA(k)>>)
           fb == Vectorize(LocalF(k), <<LocalB(k)>>)
       IN  frames' = [frames EXCEPT ![k] =
             IF fr.rule \in {"Riemann", "Trapezoid2"}
               THEN FrameReturn(fr,
                      ReturnValue(fr.rule, fr.ylists, Zero, Zero, LocalH(k)),
                      fr.evals)
             ELSE IF fa.err # "none"
               THEN FrameRaise(fr, fa.err, fr.evals \o fa.evals)
             ELSE IF fb.err # "none"
               THEN FrameRaise(fr, fb.err, fr.evals \o fa.evals \o fb.evals)
             ELSE FrameReturn(fr,
                    ReturnValue(fr.rule, fr.ylists, fa.ys[1], fb.ys[1],
                                LocalH(k)),
                    fr.evals \o fa.evals \o fb.evals)]
    /\ UNCHANGED <<argF, argA, argB, argN, cur, prev, gl>>

\* the caller takes the result; the activation record is discarded
Collect(k) ==
    /\ frames[k].pc = "done"
    /\ frames' = [frames EXCEPT ![k] = Idle]
    /\ UNCHANGED <<argF, argA, argB, argN, cur, prev, gl>>

NextFrames ==
    \/ Cell20
    \/ Cell26
    \/ \E k \in Frames :
          \/ \E rule \in Rules : Invoke(k, rule)
          \/ StepH(k)
          \/ StepXvals(k)
          \/ StepYvals(k)
          \/ StepReturn(k)
          \/ Collect(k)

SpecFrames == InitFrames /\ [][NextFrames]_vars

---------------------------------------------------------------------------
\* The formulas of the rules as the documentation states them, computed over
\* the partition x_i = a + i*dx, dx = (b - a)/n, for an integer n >= 1.

Dx(a, b, n) == RDiv(RSub(b, a), n)
X(a, b, n, i) == RAdd(a, RMul(RInt(i), Dx(a, b, n)))
Partition(a, b, n, indices) == {X(a, b, n, i) : i \in indices}

\* sum of w[i] * f(x_i) for i = 0 .. upto
RECURSIVE WeightedSum(_, _, _, _, _, _)
WeightedSum(f, a, b, n, w, upto) ==
    IF upto < 0 THEN Zero
    ELSE RAdd(WeightedSum(f, a, b, n, w, upto - 1),
              RMul(RInt(w[upto]), PolyVal(f, X(a, b, n, upto))))

RightWeights(n) == [i \in 0..n[1] |-> IF i >= 1 THEN 1 ELSE 0]
LeftWeights(n) == [i \in 0..n[1] |-> IF i < n[1] THEN 1 ELSE 0]
SimpsonWeights(n) ==
    [i \in 0..n[1] |->
        IF i = 0 \/ i = n[1] THEN 1 ELSE IF i % 2 = 1 THEN 4 ELSE 2]

RECURSIVE SumOfWeights(_, _)
SumOfWeights(w, upto) ==
    IF upto < 0 THEN 0 ELSE SumOfWeights(w, upto - 1) + w[upto]

RightSum(f, a, b, n) ==
    RMul(Dx(a, b, n), WeightedSum(f, a, b, n, RightWeights(n), n[1]))
LeftSum(f, a, b, n) ==
    RMul(Dx(a, b, n), WeightedSum(f, a, b, n, LeftWeights(n), n[1]))
SimpsonFormula(f, a, b, n) ==
    RMul(RMul(Dx(a, b, n), OneThird),
         WeightedSum(f, a, b, n, SimpsonWeights(n), n[1]))

RECURSIVE RPow(_, _)
RPow(x, k) == IF k = 0 THEN RInt(1) ELSE RMul(x, RPow(x, k - 1))

\* the integral of the polynomial f over [a, b]
RECURSIVE IntegralUpTo(_, _, _, _)
IntegralUpTo(f, a, b, k) ==
    IF k = 0 THEN Zero
    ELSE RAdd(IntegralUpTo(f, a, b, k - 1),
              RMul(Norm(f.coef[k], k), RSub(RPow(b, k), RPow(a, k))))
ExactIntegral(f, a, b) == IntegralUpTo(f, a, b, 5)

Range(s) == {s[k] : k \in 1..Len(s)}
NoRepeat(s) == \A j, k \in 1..Len(s) : j # k => s[j] # s[k]

Total(f) == f.bad = {}
Called == cur.rule # "none"
PositiveInt(n) == IsInt(n) /\ n[1] >= 1
EvenInt(n) == IsInt(n) /\ n[1] % 2 = 0
Returned(call) == call.out.kind = "value"

\* the arguments of the latest call
CurA == Lower(cur.dir)
CurB == Upper(cur.dir)

---------------------------------------------------------------------------
\* Claims about single calls and pairs of calls (specification Spec).

\* the latest two calls ran the given rules on the same arguments
Pair(rule1, rule2) ==
    cur.rule = rule1 /\ prev.rule = rule2 /\ cur.dir = prev.dir

\* the latest two calls ran the same rule with the bounds exchanged
Reversed == Called /\ cur.rule = prev.rule /\ cur.dir # prev.dir

\* C1: for every total f, a < b and every integer n >= 1, n = 1 included,
\* Integral_Trapezoid1 and Integral_Trapezoid2 both return a value and the
\* two values are equal.
C1_TrapezoidsAgree ==
    (Pair("Trapezoid1", "Trapezoid2") /\ Total(argF) /\ RLess(CurA, CurB)
        /\ PositiveInt(argN))
    => (Returned(cur) /\ Returned(prev) /\ cur.out.val = prev.out.val)

\* C2: for every constant f(x) = c, every a < b and every integer n >= 1,
\* each of the four rules returns exactly c * (b - a).
C2_ConstantExact ==
    (Called /\ Total(argF) /\ Degree(argF) = 0 /\ RLess(CurA, CurB)
        /\ PositiveInt(argN))
    => (Returned(cur)
        /\ cur.out.val = RMul(RInt(argF.coef[1]), RSub(CurB, CurA)))

\* C3: for every polynomial p of degree <= 3, every a < b and every even
\* n >= 2, Integral_SimpsonRule returns a value, the integral of p over
\* [a, b].
C3_SimpsonCubicExact ==
    (cur.rule = "Simpson" /\ Total(argF) /\ Degree(argF) <= 3
        /\ RLess(CurA, CurB) /\ EvenInt(argN) /\ argN[1] >= 2)
    => (Returned(cur) /\ cur.out.val = ExactIntegral(argF, CurA, CurB))

\* C4: for every even n >= 2, Integral_SimpsonRule returns
\* (dx/3) * sum of w_i * f(x_i) with the weights w = 1,4,2,4,...,2,4,1,
\* which sum to 3n, and samples every partition point x_0 .. x_n.
C4_SimpsonFormula ==
    (cur.rule = "Simpson" /\ Total(argF) /\ RLess(CurA, CurB)
        /\ EvenInt(argN) /\ argN[1] >= 2)
    => (/\ Returned(cur)
        /\ cur.out.val = SimpsonFormula(argF, CurA, CurB, argN)
        /\ Range(cur.out.evals) = Partition(CurA, CurB, argN, 0..argN[1])
        /\ SumOfWeights(SimpsonWeights(argN), argN[1]) = 3 * argN[1])

\* C5: for every integer n >= 1, Integral_Riemann calls f at right
\* endpoints x_1 .. x_n only (never at x_0 = a when a # b), and when f
\* throws at none of them it calls f at all of them and returns
\* dx * sum_{i=1..n} f(a + i*dx).
C5_RiemannRightEndpoints ==
    (cur.rule = "Riemann" /\ PositiveInt(argN))
    => LET right == Partition(CurA, CurB, argN, 1..argN[1])
       IN  /\ Range(cur.out.evals) \subseteq right
           /\ (CurA # CurB => CurA \notin Range(cur.out.evals))
           /\ (right \cap argF.bad = {}
                 => /\ Returned(cur)
                    /\ cur.out.val = RightSum(argF, CurA, CurB, argN)
                    /\ Range(cur.out.evals) = right)

C5_Witness ==
    /\ cur.rule = "Riemann" /\ Returned(cur)
    /\ argN = RInt(3) /\ RLess(CurA, CurB) /\ Degree(argF) = 3
    /\ cur.out.val # Zero
    /\ cur.out.val # LeftSum(argF, CurA, CurB, argN)

\* C6 as stated: with the bounds reversed the result's sign is reversed,
\* rule(f, b, a, n) = -rule(f, a, b, n), for each rule and valid n (even
\* for Simpson), whenever both calls return.
C6_SignReversed ==
    (Reversed /\ Returned(cur) /\ Returned(prev) /\ PositiveInt(argN)
        /\ (cur.rule = "Simpson" => EvenInt(argN)))
    => cur.out.val = RNeg(prev.out.val)

\* C6 amended: for Integral_Trapezoid1, Integral_Trapezoid2 and, for even
\* n, Integral_SimpsonRule the call with the bounds reversed raises exactly
\* when the call with the bounds in order raises (the same exception) and
\* otherwise returns the negated value.  Integral_Riemann(f, b, a, n) is
\* the negated left-endpoint sum -dx * sum_{i=0..n-1} f(a + i*dx): it
\* differs from -Integral_Riemann(f, a, b, n) by dx * (f(b) - f(a)).
C6_SignReversedExceptRiemann ==
    /\ (Reversed /\ PositiveInt(argN) /\ cur.rule # "Riemann"
            /\ (cur.rule = "Simpson" => EvenInt(argN)))
        => (/\ cur.out.kind = prev.out.kind
            /\ cur.out.err = prev.out.err
            /\ cur.out.val = RNeg(prev.out.val))
    /\ (cur.rule = "Riemann" /\ PositiveInt(argN) /\ Returned(cur))
        => cur.out.val = RNeg(LeftSum(argF, CurB, CurA, argN))
    /\ (Reversed /\ PositiveInt(argN) /\ cur.rule = "Riemann"
            /\ Returned(cur) /\ Returned(prev))
        => cur.out.val =
             RAdd(RNeg(prev.out.val),
                  RMul(Dx(CurA, CurB, argN),
                       RSub(PolyVal(argF, CurB), PolyVal(argF, CurA))))

C6_Witness ==
    /\ Reversed /\ cur.rule = "Simpson" /\ cur.dir = "rev"
    /\ RLess(argA, argB) /\ argN = RInt(4) /\ Degree(argF) = 4
    /\ Returned(cur) /\ Returned(prev)
    /\ cur.out.val # Zero

\* the points the rule's formula samples, and the counts for which the
\* rule gets as far as sampling them
Sampled(rule, a, b, n) ==
    IF rule = "Riemann" THEN Partition(a, b, n, 1..n[1])
    ELSE Partition(a, b, n, 0..n[1])
Samples(rule, n) ==
    /\ PositiveInt(n)
    /\ rule = "Trapezoid1" => n[1] >= 2
    /\ rule = "Simpson" => (EvenInt(n) /\ n[1] >= 4)

\* C7: if f throws at a point at which a rule calls it, the call raises
\* that exception and returns no value; the throwing call is the last call
\* of f (no point is skipped, no sum is continued).  Whenever f throws at
\* one of the points x_i the rule's formula samples, the call raises.
C7_EvaluationFailurePropagates ==
    Called =>
      LET ev == cur.out.evals
      IN  /\ \A k \in 1..Len(ev) :
                Throws(argF, ev[k])
                => (/\ cur.out.kind = "error"
                    /\ cur.out.err = "EvaluationFailure"
                    /\ k = Len(ev))
          /\ (Samples(cur.rule, argN)
                /\ Sampled(cur.rule, CurA, CurB, argN) \cap argF.bad # {})
              => (/\ cur.out.kind = "error"
                  /\ cur.out.err = "EvaluationFailure"
                  /\ Throws(argF, ev[Len(ev)]))

C7_Witness ==
    /\ cur.rule = "Simpson" /\ argN = RInt(4)
    /\ cur.out.err = "EvaluationFailure"
    /\ Len(cur.out.evals) > 0
    /\ cur.out.evals[Len(cur.out.evals)] = X(CurA, CurB, argN, 2)
    /\ CurA # CurB

\* C8 as stated: for n = 0, n < 0 and non-integer n every rule accepts n
\* and returns a value.
C8_AnyCountAccepted ==
    (Called /\ Total(argF) /\ ~PositiveInt(argN)) => Returned(cur)

\* C8 amended: no rule checks n, yet no rule returns a value for n = 0,
\* n < 0 or a non-integer n: n = 0 raises ZeroDivisionError (the division
\* computing h), a non-integer n raises TypeError (range), a negative
\* integer n raises ValueError (np.vectorize on an empty sequence); f is
\* never called.
C8_InvalidCountRaises ==
    (Called /\ ~PositiveInt(argN))
    => (/\ cur.out.kind = "error"
        /\ cur.out.evals = <<>>
        /\ cur.out.err =
              IF argN = Zero THEN "ZeroDivisionError"
              ELSE IF ~IsInt(argN) THEN "TypeError" ELSE "ValueError")

C8_Witness ==
    /\ cur.rule = "Simpson" /\ argN = RInt(-1) /\ Total(argF)
    /\ cur.out.err = "ValueError"
    /\ prev.rule = "Riemann" /\ prev.out.err = "ValueError"

\* C9: within one call that returns, for a # b and valid n, f is called
\* at no point twice.
C9_EachPointOnce ==
    (Called /\ Returned(cur) /\ argA # argB /\ PositiveInt(argN))
    => NoRepeat(cur.out.evals)

---------------------------------------------------------------------------
\* Claims about calls in progress (specification SpecFrames).

\* C10: a finished call's outcome (its value or exception, and the calls of
\* f it made) is the outcome of running the rule alone on the call's own
\* arguments, whatever the other call in progress did meanwhile and whatever
\* the top-level cells assigned to a, b, n, h, f, xvals before or during the
\* call.
C10_CallsIndependent ==
    \A k \in Frames :
        frames[k].pc = "done"
        => frames[k].out =
             CallRule(frames[k].rule, argF, Lower(FrameDir(k)),
                      Upper(FrameDir(k)), argN)

C10_Witness ==
    /\ frames[1].pc = "done" /\ frames[1].rule = "Simpson"
    /\ frames[1].reassigned /\ gl.set = "all"
    /\ frames[1].out.kind = "value" /\ frames[1].out.val # Zero
    /\ argN = RInt(4) /\ argA # argB
    /\ frames[2].pc = "yvals" /\ frames[2].rule = "Trapezoid2"
    /\ frames[2].reassigned

===========================================================================
